---- MODULE Spec2Model ----
(***************************************************************************)
(* Model of aide/backend/backend_openrouter.py: the process-wide lazily    *)
(* constructed client (_client, _setup_openrouter_client under funcy's     *)
(* @once) and the query adapter (query), one action per step of the code.  *)
(*                                                                         *)
(* Python values are records of one shape (PyVal) so that any two of them  *)
(* can be compared; strings are TLA+ strings, read a character at a time   *)
(* with SubSeq.                                                            *)
(***************************************************************************)
EXTENDS Integers, Sequences, FiniteSets, TLC

(***************************************************************************)
(* Bounds of the model.                                                    *)
(***************************************************************************)
\* invocations of query in the process, over all threads
MaxCalls == 3
\* calls of the completion endpoint one backoff_create call may make
MaxAttempts == 3

(***************************************************************************)
(* Python values.                                                          *)
(***************************************************************************)
PyNone == [t |-> "none", s |-> "", n |-> 0, elems |-> <<>>, members |-> {}]
PyStr(x) == [t |-> "str", s |-> x, n |-> 0, elems |-> <<>>, members |-> {}]
PyInt(k) == [t |-> "int", s |-> "", n |-> k, elems |-> <<>>, members |-> {}]
PyFloat(k) == [t |-> "float", s |-> "", n |-> k, elems |-> <<>>, members |-> {}]
PyBool(b) == [t |-> "bool", s |-> "", n |-> IF b THEN 1 ELSE 0, elems |-> <<>>, members |-> {}]
PyList(es) == [t |-> "list", s |-> "", n |-> 0, elems |-> es, members |-> {}]
\* a dict is its set of items [k, v]; Python's dict equality ignores order
PyDict(ms) == [t |-> "dict", s |-> "", n |-> 0, elems |-> <<>>, members |-> ms]

\* bool(v) for the values the adapter tests: `if message`, `assert tool_calls`
Truthy(v) ==
    CASE v.t = "none" -> FALSE
      [] v.t = "str" -> v.s # ""
      [] v.t = "list" -> Len(v.elems) > 0
      [] v.t = "dict" -> v.members # {}
      [] OTHER -> v.n # 0

\* funcy.notnone
NotNone(v) == v.t # "none"

(***************************************************************************)
(* json.loads, on documents over the characters                            *)
(*   { } [ ] " : , space, the digits and the lower-case letters.           *)
(* (No sign, fraction, escape or upper-case letter: the argument strings   *)
(* of the model use none.)                                                 *)
(***************************************************************************)
Digits == {"0", "1", "2", "3", "4", "5", "6", "7", "8", "9"}
WsChars == {" "}

Ch(s, i) == IF i >= 1 /\ i <= Len(s) THEN SubSeq(s, i, i) ELSE ""

DigitVal(c) ==
    CASE c = "0" -> 0 [] c = "1" -> 1 [] c = "2" -> 2 [] c = "3" -> 3
      [] c = "4" -> 4 [] c = "5" -> 5 [] c = "6" -> 6 [] c = "7" -> 7
      [] c = "8" -> 8 [] c = "9" -> 9

\* whether the word w stands in s at index i
StartsWith(s, i, w) ==
    i + Len(w) - 1 <= Len(s) /\ SubSeq(s, i, i + Len(w) - 1) = w

RECURSIVE SkipWs(_, _)
SkipWs(s, i) == IF Ch(s, i) \in WsChars THEN SkipWs(s, i + 1) ELSE i

\* first index >= i that holds no digit
RECURSIVE DigitsEnd(_, _)
DigitsEnd(s, i) == IF Ch(s, i) \in Digits THEN DigitsEnd(s, i + 1) ELSE i

\* the number written by the digits s[i..j-1]
RECURSIVE DigitsValue(_, _, _)
DigitsValue(s, i, j) ==
    IF j <= i THEN 0 ELSE 10 * DigitsValue(s, i, j - 1) + DigitVal(Ch(s, j - 1))

RECURSIVE Pow10(_)
Pow10(k) == IF k <= 0 THEN 1 ELSE 10 * Pow10(k - 1)

\* index of the closing quote of a string whose first character is at i; 0 if none
RECURSIVE QuoteEnd(_, _)
QuoteEnd(s, i) ==
    IF i > Len(s) THEN 0
    ELSE IF Ch(s, i) = "\"" THEN i
    ELSE QuoteEnd(s, i + 1)

Fail == [ok |-> FALSE, val |-> PyNone, pos |-> 0]
Got(v, p) == [ok |-> TRUE, val |-> v, pos |-> p]

\* a string literal opening at i
ParseString(s, i) ==
    LET e == QuoteEnd(s, i + 1)
    IN  IF Ch(s, i) = "\"" /\ e # 0
        THEN Got(PyStr(SubSeq(s, i + 1, e - 1)), e + 1)
        ELSE Fail

\* a number starting at i: int, or float when an exponent follows
ParseNumber(s, i) ==
    LET j == DigitsEnd(s, i)
        k == DigitsEnd(s, j + 1)
    IN  IF j = i \/ (Ch(s, i) = "0" /\ j > i + 1) THEN
            \* no digit; or "0" followed by digits: the number is 0 and the
            \* rest is left for the caller, which rejects it
            IF j = i THEN Fail ELSE Got(PyInt(0), i + 1)
        ELSE IF Ch(s, j) = "e" /\ k > j + 1 THEN
            Got(PyFloat(DigitsValue(s, i, j) * Pow10(DigitsValue(s, j + 1, k))), k)
        ELSE Got(PyInt(DigitsValue(s, i, j)), j)

\* dict[k] = v: a later duplicate key replaces the earlier item
DictPut(ms, k, v) == {m \in ms : m.k # k} \cup {[k |-> k, v |-> v]}

RECURSIVE ParseValue(_, _)
RECURSIVE ParseMembers(_, _, _)
RECURSIVE ParseElems(_, _, _)

\* s[i] is the first character of a member ("key": value); ms the items so far
ParseMembers(s, i, ms) ==
    LET key == ParseString(s, i)
        c == IF key.ok THEN SkipWs(s, key.pos) ELSE 0
        v == IF key.ok /\ Ch(s, c) = ":"
             THEN ParseValue(s, SkipWs(s, c + 1)) ELSE Fail
        e == IF v.ok THEN SkipWs(s, v.pos) ELSE 0
    IN  IF ~v.ok THEN Fail
        ELSE IF Ch(s, e) = "}" THEN Got(PyDict(DictPut(ms, key.val.s, v.val)), e + 1)
        ELSE IF Ch(s, e) = ","
             THEN ParseMembers(s, SkipWs(s, e + 1), DictPut(ms, key.val.s, v.val))
        ELSE Fail

\* s[i] is the first character of an element; es the elements so far
ParseElems(s, i, es) ==
    LET v == ParseValue(s, i)
        e == IF v.ok THEN SkipWs(s, v.pos) ELSE 0
    IN  IF ~v.ok THEN Fail
        ELSE IF Ch(s, e) = "]" THEN Got(PyList(Append(es, v.val)), e + 1)
        ELSE IF Ch(s, e) = "," THEN ParseElems(s, SkipWs(s, e + 1), Append(es, v.val))
        ELSE Fail

ParseValue(s, i) ==
    LET c == Ch(s, i)
    IN  CASE c = "{" ->
                IF Ch(s, SkipWs(s, i + 1)) = "}"
                THEN Got(PyDict({}), SkipWs(s, i + 1) + 1)
                ELSE ParseMembers(s, SkipWs(s, i + 1), {})
          [] c = "[" ->
                IF Ch(s, SkipWs(s, i + 1)) = "]"
                THEN Got(PyList(<<>>), SkipWs(s, i + 1) + 1)
                ELSE ParseElems(s, SkipWs(s, i + 1), <<>>)
          [] c = "\"" -> ParseString(s, i)
          [] c \in Digits -> ParseNumber(s, i)
          [] c = "n" -> IF StartsWith(s, i, "null") THEN Got(PyNone, i + 4) ELSE Fail
          [] c = "t" -> IF StartsWith(s, i, "true") THEN Got(PyBool(TRUE), i + 4) ELSE Fail
          [] c = "f" -> IF StartsWith(s, i, "false") THEN Got(PyBool(FALSE), i + 5) ELSE Fail
          [] OTHER -> Fail

\* json.loads(s): [ok, val]; ok = FALSE stands for json.JSONDecodeError
JsonLoads(s) ==
    LET v == ParseValue(s, SkipWs(s, 1))
    IN  IF v.ok /\ SkipWs(s, v.pos) = Len(s) + 1
        THEN [ok |-> TRUE, val |-> v.val]
        ELSE [ok |-> FALSE, val |-> PyNone]

(***************************************************************************)
(* Collaborators and data of one invocation.                               *)
(***************************************************************************)
Threads == {"t1", "t2"}
MainThread == "t1"
NoThread == "none"

\* _client = None, and the identity of the n-th openai.OpenAI object is n
NoClient == 0

\* the exception classes the completion call can raise
OPENAI_TIMEOUT_EXCEPTIONS_Wider ==
    {"RateLimitError", "APIConnectionError", "APITimeoutError",
     "InternalServerError", "BadRequestError"}

OPENAI_TIMEOUT_EXCEPTIONS ==
    {"RateLimitError", "APIConnectionError", "APITimeoutError", "InternalServerError"}

ApiErrors ==
    {"RateLimitError", "APIConnectionError", "APITimeoutError",
     "InternalServerError", "AuthenticationError", "BadRequestError"}

\* func_spec: None, or a FunctionSpec (name, description, json_schema)
NoFuncSpec == [present |-> FALSE, name |-> "", description |-> "", json_schema |-> PyNone]
FunctionSpec(name, description, schema) ==
    [present |-> TRUE, name |-> name, description |-> description, json_schema |-> schema]

Item(k, v) == [k |-> k, v |-> v]

\* FunctionSpec.as_openai_tool_dict
AsOpenaiToolDict(fs) ==
    PyDict({Item("type", PyStr("function")),
            Item("function", PyDict({Item("name", PyStr(fs.name)),
                                     Item("description", PyStr(fs.description)),
                                     Item("parameters", fs.json_schema)}))})

\* FunctionSpec.openai_tool_choice_dict
OpenaiToolChoiceDict(fs) ==
    PyDict({Item("type", PyStr("function")),
            Item("function", PyDict({Item("name", PyStr(fs.name))}))})

\* the routing hint sent with every request
ExtraBody ==
    [provider |-> [order |-> <<"Fireworks">>,
                   ignore |-> <<"Together", "DeepInfra", "Hyperbolic">>]]

\* a response: the first choice's message, the usage and the provenance fields
\* (every response of the model has a first choice and a usage)
ToolCall(name, arguments) == [name |-> name, arguments |-> arguments]
NoToolCalls == [none |-> TRUE, calls |-> <<>>]
ToolCalls(cs) == [none |-> FALSE, calls |-> cs]
Completion(content, tool_calls) ==
    [received |-> TRUE, content |-> content, tool_calls |-> tool_calls,
     prompt_tokens |-> 3, completion_tokens |-> 1,
     system_fingerprint |-> "fp", model |-> "m", created |-> 1]
NoCompletion ==
    [received |-> FALSE, content |-> PyNone, tool_calls |-> NoToolCalls,
     prompt_tokens |-> 0, completion_tokens |-> 0,
     system_fingerprint |-> "", model |-> "", created |-> 0]

\* bool(choice.message.tool_calls)
HasToolCalls(tcs) == ~tcs.none /\ Len(tcs.calls) > 0

\* the outcome of an invocation
NoResult ==
    [kind |-> "none", exc |-> "", output |-> PyNone, in_tokens |-> 0,
     out_tokens |-> 0, info |-> [system_fingerprint |-> "", model |-> "", created |-> 0]]
Raise(e) == [NoResult EXCEPT !.kind = "raise", !.exc = e]
Return(output, c) ==
    [kind |-> "return", exc |-> "", output |-> output,
     in_tokens |-> c.prompt_tokens, out_tokens |-> c.completion_tokens,
     info |-> [system_fingerprint |-> c.system_fingerprint, model |-> c.model,
               created |-> c.created]]

NoRequest == [sent |-> FALSE, messages |-> <<>>, extra_body |-> ExtraBody, params |-> <<>>]

(***************************************************************************)
(* The inputs and responses the model draws from.                          *)
(***************************************************************************)
LookupSpec == FunctionSpec("lookup", "look a key up", PyDict({Item("type", PyStr("object"))}))

KwModelOnly == [model |-> PyStr("m"), temperature |-> PyNone]
KwWithTools == [temperature |-> PyInt(1), tools |-> PyList(<<PyStr("caller tool")>>)]
KwWithMessages == [model |-> PyStr("m"), messages |-> PyList(<<>>)]

MessageValues(x) == {PyNone, PyStr(""), PyStr(x)}

Inputs ==
    [system_message : MessageValues("sys"), user_message : MessageValues("usr"),
     func_spec : {NoFuncSpec, LookupSpec}, convert_system_to_user : BOOLEAN,
     model_kwargs : {KwModelOnly, KwWithTools, KwWithMessages}]

SmallInputs ==
    [system_message : {PyNone}, user_message : {PyStr("usr")},
     func_spec : {NoFuncSpec, LookupSpec}, convert_system_to_user : {FALSE},
     model_kwargs : {KwModelOnly}]

ArgumentStrings ==
    {"{\"x\":1}", " { \"x\" : 1 } ", "{\"x\":1", "", "[1, null]", "{\"x\":1,\"x\":2}"}

SecondCall == ToolCall("lookup", "{\"y\":2}")

ToolCallLists ==
    {NoToolCalls, ToolCalls(<<>>)}
    \cup {ToolCalls(<<ToolCall(nm, a)>>) : nm \in {"lookup", "other"}, a \in ArgumentStrings}
    \cup {ToolCalls(<<ToolCall(nm, a), SecondCall>>) :
              nm \in {"lookup", "other"}, a \in {"{\"x\":1}", "{\"x\":1"}}

Responses ==
    {Completion(c, tcs) : c \in {PyNone, PyStr(""), PyStr("hello")}, tcs \in ToolCallLists}

SmallResponses ==
    {Completion(PyStr("hello"), NoToolCalls),
     Completion(PyNone, ToolCalls(<<ToolCall("lookup", "{\"x\":1}")>>)),
     Completion(PyNone, ToolCalls(<<ToolCall("lookup", "{\"x\":1")>>))}

(***************************************************************************)
(* State.                                                                  *)
(***************************************************************************)
VARIABLES
    client,           \* the module global _client
    done,             \* once: the argument tuples the wrapper has seen (done_set)
    lock,             \* once: the thread holding the wrapper's lock
    bodyRuns,         \* executions of the body of _setup_openrouter_client
    started,          \* invocations of query begun
    clientAtCall,     \* the value of _client when the thread's invocation began
    pc,               \* each thread's place in query
    args,             \* the arguments of the thread's invocation
    pending,          \* the exception the setup body raised, "" if none
    filtered_kwargs,  \* the local filtered_kwargs
    messages,         \* the local messages
    log,              \* the lines the invocation logged
    request,          \* what the invocation handed to backoff_create
    create_fn,        \* the client whose create method backoff_create was given
    calls,            \* calls of backoff_create by the invocation
    attempts,         \* calls of the completion endpoint by the invocation
    lastExc,          \* what the latest endpoint call raised, "" if it returned
    completion,       \* the local completion
    result            \* the invocation's outcome

vars ==
    <<client, done, lock, bodyRuns, started, clientAtCall, pc, args, pending, filtered_kwargs,
      messages, log, request, create_fn, calls, attempts, lastExc, completion, result>>

globals == <<client, done, lock, bodyRuns, started, clientAtCall>>

NoArgs ==
    [system_message |-> PyNone, user_message |-> PyNone, func_spec |-> NoFuncSpec,
     convert_system_to_user |-> FALSE, model_kwargs |-> <<>>]

Init ==
    /\ client = NoClient
    /\ done = {}
    /\ lock = NoThread
    /\ bodyRuns = 0
    /\ started = 0
    /\ clientAtCall = [t \in Threads |-> NoClient]
    /\ pc = [t \in Threads |-> "idle"]
    /\ args = [t \in Threads |-> NoArgs]
    /\ pending = [t \in Threads |-> ""]
    /\ filtered_kwargs = [t \in Threads |-> <<>>]
    /\ messages = [t \in Threads |-> <<>>]
    /\ log = [t \in Threads |-> <<>>]
    /\ request = [t \in Threads |-> NoRequest]
    /\ create_fn = [t \in Threads |-> NoClient]
    /\ calls = [t \in Threads |-> 0]
    /\ attempts = [t \in Threads |-> 0]
    /\ lastExc = [t \in Threads |-> ""]
    /\ completion = [t \in Threads |-> NoCompletion]
    /\ result = [t \in Threads |-> NoResult]

(***************************************************************************)
(* funcy's @once around _setup_openrouter_client:                          *)
(*     with lock:                                                          *)
(*         if values not in done:                                          *)
(*             add(values)                                                 *)
(*             return func()                                               *)
(* with values = () for once.                                              *)
(***************************************************************************)
LockAvailable_NoLock(l) == TRUE

\* `with lock` lets a thread in only while no thread holds the lock
LockAvailable(l) == l = NoThread

NotDone_Always(values, d) == TRUE

\* `values not in done`
NotDone(values, d) == values \notin d

\* query begins: the arguments are bound and the thread reaches line 46
Call(t, In) ==
    /\ pc[t] = "idle"
    /\ started < MaxCalls
    /\ started' = started + 1
    /\ clientAtCall' = [clientAtCall EXCEPT ![t] = client]
    /\ \E a \in In : args' = [args EXCEPT ![t] = a]
    /\ pc' = [pc EXCEPT ![t] = "setup"]
    /\ UNCHANGED <<client, done, lock, bodyRuns, pending, filtered_kwargs, messages, log,
                   request, create_fn, calls, attempts, lastExc, completion, result>>

\* the wrapper takes the lock and tests `values not in done`
OnceEnter(t) ==
    /\ pc[t] = "setup"
    /\ LockAvailable(lock)
    /\ lock' = t
    /\ pc' = [pc EXCEPT ![t] = IF NotDone(<<>>, done) THEN "once_add" ELSE "once_exit"]
    /\ UNCHANGED <<client, done, bodyRuns, started, clientAtCall, args, pending, filtered_kwargs,
                   messages, log, request, create_fn, calls, attempts, lastExc,
                   completion, result>>

\* add(values): the call is marked done before the body runs
OnceAdd(t) ==
    /\ pc[t] = "once_add"
    /\ done' = done \cup {<<>>}
    /\ pc' = [pc EXCEPT ![t] = "body"]
    /\ UNCHANGED <<client, lock, bodyRuns, started, clientAtCall, args, pending, filtered_kwargs,
                   messages, log, request, create_fn, calls, attempts, lastExc,
                   completion, result>>

\* the body of _setup_openrouter_client: openai.OpenAI(...) returns a new client,
\* which is bound to _client, or raises (no API key in the environment)
SetupBody(t) ==
    /\ pc[t] = "body"
    /\ bodyRuns' = bodyRuns + 1
    /\ \E constructed \in BOOLEAN :
          IF constructed
          THEN /\ client' = bodyRuns + 1
               /\ UNCHANGED pending
          ELSE /\ pending' = [pending EXCEPT ![t] = "OpenAIError"]
               /\ UNCHANGED client
    /\ pc' = [pc EXCEPT ![t] = "once_exit"]
    /\ UNCHANGED <<done, lock, started, clientAtCall, args, filtered_kwargs, messages, log, request,
                   create_fn, calls, attempts, lastExc, completion, result>>

\* the with block ends: the lock is released; an exception of the body leaves query
OnceExit(t) ==
    /\ pc[t] = "once_exit"
    /\ lock' = NoThread
    /\ IF pending[t] # ""
       THEN /\ result' = [result EXCEPT ![t] = Raise(pending[t])]
            /\ pc' = [pc EXCEPT ![t] = "done"]
       ELSE /\ pc' = [pc EXCEPT ![t] = "prepare"]
            /\ UNCHANGED result
    /\ UNCHANGED <<client, done, bodyRuns, started, clientAtCall, args, pending, filtered_kwargs,
                   messages, log, request, create_fn, calls, attempts, lastExc,
                   completion>>

(***************************************************************************)
(* query, lines 47-63: the keyword arguments and the messages.             *)
(***************************************************************************)
SelectValues_KeepAll(d) == d

\* select_values(notnone, model_kwargs)
SelectValues(d) == [k \in {k \in DOMAIN d : NotNone(d[k])} |-> d[k]]

\* d[key] = v
DictSet(d, key, v) == [k \in DOMAIN d \cup {key} |-> IF k = key THEN v ELSE d[k]]

\* lines 47-54
FilteredKwargs(model_kwargs, func_spec) ==
    IF func_spec.present
    THEN DictSet(DictSet(SelectValues(model_kwargs),
                         "tools", PyList(<<AsOpenaiToolDict(func_spec)>>)),
                 "tool_choice", OpenaiToolChoiceDict(func_spec))
    ELSE SelectValues(model_kwargs)

MessageFor_SystemRole(message, position) ==
    [role |-> IF position = 1 THEN "system" ELSE "user", content |-> message]

\* the entry for one message; position 1 is system_message, 2 is user_message
MessageFor(message, position) == [role |-> "user", content |-> message]

\* lines 57-61
BuildMessages(system_message, user_message) ==
    (IF Truthy(system_message) THEN <<MessageFor(system_message, 1)>> ELSE <<>>)
    \o (IF Truthy(user_message) THEN <<MessageFor(user_message, 2)>> ELSE <<>>)

LogLine(level, text, arg) == [level |-> level, text |-> text, arg |-> arg]

Prepare(t) ==
    /\ pc[t] = "prepare"
    /\ filtered_kwargs' =
          [filtered_kwargs EXCEPT ![t] = FilteredKwargs(args[t].model_kwargs, args[t].func_spec)]
    /\ log' = [log EXCEPT ![t] =
                  IF args[t].func_spec.present
                  THEN Append(@, LogLine("info", "Using OpenRouter tool calling for ",
                                         args[t].func_spec.name))
                  ELSE @]
    /\ messages' =
          [messages EXCEPT ![t] = BuildMessages(args[t].system_message, args[t].user_message)]
    /\ pc' = [pc EXCEPT ![t] = "request"]
    /\ UNCHANGED <<globals, args, pending, request, create_fn, calls, attempts, lastExc,
                   completion, result>>

(***************************************************************************)
(* query, lines 64-75: the call of backoff_create.                         *)
(***************************************************************************)
\* keyword names the call itself gives: one more among filtered_kwargs is a TypeError
CallKeywords == {"messages", "extra_body"}

\* the arguments are evaluated (_client.chat... needs a client), then bound
BackoffCall(t) ==
    /\ pc[t] = "request"
    /\ IF client = NoClient THEN
            /\ result' = [result EXCEPT ![t] = Raise("AttributeError")]
            /\ pc' = [pc EXCEPT ![t] = "done"]
            /\ UNCHANGED <<request, create_fn, calls>>
       ELSE IF DOMAIN filtered_kwargs[t] \cap CallKeywords # {} THEN
            /\ result' = [result EXCEPT ![t] = Raise("TypeError")]
            /\ pc' = [pc EXCEPT ![t] = "done"]
            /\ UNCHANGED <<request, create_fn, calls>>
       ELSE
            /\ create_fn' = [create_fn EXCEPT ![t] = client]
            /\ calls' = [calls EXCEPT ![t] = @ + 1]
            /\ request' = [request EXCEPT ![t] =
                              [sent |-> TRUE, messages |-> messages[t],
                               extra_body |-> ExtraBody, params |-> filtered_kwargs[t]]]
            /\ pc' = [pc EXCEPT ![t] = "attempt"]
            /\ UNCHANGED result
    /\ UNCHANGED <<globals, args, pending, filtered_kwargs, messages, log, attempts,
                   lastExc, completion>>

\* backoff_create: an exception of one of retry_exceptions is retried
Retried(e, retry_exceptions) == e \in retry_exceptions

\* backoff_create calls create_fn: it returns a response, or raises; a retried
\* exception leaves the helper about to call again (the model stops retrying
\* after MaxAttempts calls: the last one returns or raises for good)
Attempt(t, Resp) ==
    /\ pc[t] = "attempt"
    /\ attempts[t] < MaxAttempts
    /\ attempts' = [attempts EXCEPT ![t] = @ + 1]
    /\ \/ \E r \in Resp :
             /\ completion' = [completion EXCEPT ![t] = r]
             /\ lastExc' = [lastExc EXCEPT ![t] = ""]
             /\ pc' = [pc EXCEPT ![t] = "parse"]
             /\ UNCHANGED result
       \/ \E e \in ApiErrors :
             /\ lastExc' = [lastExc EXCEPT ![t] = e]
             /\ IF Retried(e, OPENAI_TIMEOUT_EXCEPTIONS)
                THEN /\ attempts[t] + 1 < MaxAttempts
                     /\ UNCHANGED <<pc, result>>
                ELSE /\ result' = [result EXCEPT ![t] = Raise(e)]
                     /\ pc' = [pc EXCEPT ![t] = "done"]
             /\ UNCHANGED completion
    /\ UNCHANGED <<globals, args, pending, filtered_kwargs, messages, log, request,
                   create_fn, calls>>

(***************************************************************************)
(* query, lines 76-108: the response.                                      *)
(***************************************************************************)
TextOutput_OrEmpty(message) ==
    IF message.content.t = "none" THEN PyStr("") ELSE message.content

\* line 82: choice.message.content
TextOutput(message) == message.content

FirstToolCall_Last(tcs) == tcs.calls[Len(tcs.calls)]

\* choice.message.tool_calls[0]
FirstToolCall(tcs) == tcs.calls[1]

NameMatches_Any(call, func_spec) == TRUE

\* line 88: the asserted condition
NameMatches(call, func_spec) == call.name = func_spec.name

AfterAssertionError_Reissue == "request"

\* nothing in query catches an AssertionError: the invocation ends
AfterAssertionError == "done"

DecodeErrorLine_NoPayload(arguments) ==
    LogLine("error", "Error decoding function arguments: ", "")

\* lines 94-96
DecodeErrorLine(arguments) ==
    LogLine("error", "Error decoding function arguments: ", arguments)

\* line 92
ParsedLine(name) == LogLine("info", "Successfully parsed tool call response for ", name)

\* lines 76-92 and, when an output is bound, 99-108
ParseResponse(t) ==
    /\ pc[t] = "parse"
    /\ LET message == completion[t]
           fs == args[t].func_spec
       IN  IF ~fs.present THEN
               /\ result' = [result EXCEPT ![t] = Return(TextOutput(message), completion[t])]
               /\ pc' = [pc EXCEPT ![t] = "done"]
               /\ UNCHANGED log
           ELSE IF ~HasToolCalls(message.tool_calls)
                   \/ ~NameMatches(FirstToolCall(message.tool_calls), fs) THEN
               /\ result' = [result EXCEPT ![t] = Raise("AssertionError")]
               /\ pc' = [pc EXCEPT ![t] = AfterAssertionError]
               /\ UNCHANGED log
           ELSE LET parsed == JsonLoads(FirstToolCall(message.tool_calls).arguments)
                IN  IF parsed.ok THEN
                        /\ result' = [result EXCEPT ![t] = Return(parsed.val, completion[t])]
                        /\ log' = [log EXCEPT ![t] = Append(@, ParsedLine(fs.name))]
                        /\ pc' = [pc EXCEPT ![t] = "done"]
                    ELSE
                        /\ pc' = [pc EXCEPT ![t] = "json_err"]
                        /\ UNCHANGED <<result, log>>
    /\ UNCHANGED <<globals, args, pending, filtered_kwargs, messages, request, create_fn,
                   calls, attempts, lastExc, completion>>

\* lines 93-96: the handler logs the argument string
LogDecodeError(t) ==
    /\ pc[t] = "json_err"
    /\ log' = [log EXCEPT ![t] =
                  Append(@, DecodeErrorLine(FirstToolCall(completion[t].tool_calls).arguments))]
    /\ pc' = [pc EXCEPT ![t] = "reraise"]
    /\ UNCHANGED <<globals, args, pending, filtered_kwargs, messages, request, create_fn,
                   calls, attempts, lastExc, completion, result>>

\* line 97: raise e
Reraise(t) ==
    /\ pc[t] = "reraise"
    /\ result' = [result EXCEPT ![t] = Raise("JSONDecodeError")]
    /\ pc' = [pc EXCEPT ![t] = "done"]
    /\ UNCHANGED <<globals, args, pending, filtered_kwargs, messages, log, request,
                   create_fn, calls, attempts, lastExc, completion>>

\* query has returned or raised: the caller has the outcome and the invocation's
\* locals are gone; the thread may call again
Leave(t) ==
    /\ pc[t] = "done"
    /\ pc' = [pc EXCEPT ![t] = "idle"]
    /\ args' = [args EXCEPT ![t] = NoArgs]
    /\ clientAtCall' = [clientAtCall EXCEPT ![t] = NoClient]
    /\ pending' = [pending EXCEPT ![t] = ""]
    /\ filtered_kwargs' = [filtered_kwargs EXCEPT ![t] = <<>>]
    /\ messages' = [messages EXCEPT ![t] = <<>>]
    /\ log' = [log EXCEPT ![t] = <<>>]
    /\ request' = [request EXCEPT ![t] = NoRequest]
    /\ create_fn' = [create_fn EXCEPT ![t] = NoClient]
    /\ calls' = [calls EXCEPT ![t] = 0]
    /\ attempts' = [attempts EXCEPT ![t] = 0]
    /\ lastExc' = [lastExc EXCEPT ![t] = ""]
    /\ completion' = [completion EXCEPT ![t] = NoCompletion]
    /\ result' = [result EXCEPT ![t] = NoResult]
    /\ UNCHANGED <<client, done, lock, bodyRuns, started>>

(***************************************************************************)
(* Specifications: one caller with the full inputs (Spec), and concurrent  *)
(* callers with few inputs (SpecConc).                                     *)
(***************************************************************************)
Next ==
    \/ Call(MainThread, Inputs)
    \/ OnceEnter(MainThread)
    \/ OnceAdd(MainThread)
    \/ SetupBody(MainThread)
    \/ OnceExit(MainThread)
    \/ Prepare(MainThread)
    \/ BackoffCall(MainThread)
    \/ Attempt(MainThread, Responses)
    \/ ParseResponse(MainThread)
    \/ LogDecodeError(MainThread)
    \/ Reraise(MainThread)
    \/ Leave(MainThread)

Spec == Init /\ [][Next]_vars

NextConc ==
    \E t \in Threads :
        \/ Call(t, SmallInputs)
        \/ OnceEnter(t)
        \/ OnceAdd(t)
        \/ SetupBody(t)
        \/ OnceExit(t)
        \/ Prepare(t)
        \/ BackoffCall(t)
        \/ Attempt(t, SmallResponses)
        \/ ParseResponse(t)
        \/ LogDecodeError(t)
        \/ Reraise(t)
        \/ Leave(t)

SpecConc == Init /\ [][NextConc]_vars

(***************************************************************************)
(* Properties.                                                             *)
(***************************************************************************)
TransientClasses ==
    {"RateLimitError", "APIConnectionError", "APITimeoutError", "InternalServerError"}

NonEmpty(v) == v.t = "str" /\ v.s # ""

\* the response of t's invocation satisfies the tool-call contract of its func_spec
ContractMet(t) ==
    /\ ~completion[t].tool_calls.none
    /\ Len(completion[t].tool_calls.calls) > 0
    /\ completion[t].tool_calls.calls[1].name = args[t].func_spec.name

FirstArguments(t) == completion[t].tool_calls.calls[1].arguments

\* C1: over any number of invocations, concurrent first uses included, the body
\* of _setup_openrouter_client is executed at most once.
C1_SetupBodyAtMostOnce == bodyRuns <= 1

\* two invocations both began before any client existed, the body has run and
\* constructed the client, and both invocations are past the setup
C1_Witness ==
    /\ \A t \in Threads :
          clientAtCall[t] = NoClient /\ pc[t] \in {"request", "attempt", "parse", "done"}
    /\ started = 2
    /\ client # NoClient
    /\ bodyRuns = 1

\* C2: the messages sent hold one entry per non-empty input and none for an empty
\* or absent one, the system-derived entry first, every entry with role "user",
\* whatever convert_system_to_user is.
C2_MessagesSent ==
    \A t \in Threads :
        request[t].sent =>
            LET sys == args[t].system_message
                usr == args[t].user_message
                ms == request[t].messages
            IN  /\ Len(ms) = (IF NonEmpty(sys) THEN 1 ELSE 0) + (IF NonEmpty(usr) THEN 1 ELSE 0)
                /\ \A i \in 1..Len(ms) : ms[i].role = "user"
                /\ NonEmpty(sys) => ms[1].content = sys
                /\ NonEmpty(usr) => ms[Len(ms)].content = usr

\* a request went out with both messages non-empty and convert_system_to_user unset
C2_Witness ==
    \E t \in Threads :
        /\ request[t].sent
        /\ NonEmpty(args[t].system_message) /\ NonEmpty(args[t].user_message)
        /\ ~args[t].convert_system_to_user
        /\ Len(request[t].messages) = 2

\* C3: with a func_spec, query returns a value only if the response has a tool call
\* and the first one's function name is func_spec.name; otherwise it fails with
\* no value and without calling the request path again.
C3_ToolCallContract ==
    \A t \in Threads :
        (args[t].func_spec.present /\ completion[t].received) =>
            /\ result[t].kind = "return" => ContractMet(t)
            /\ ~ContractMet(t) =>
                  /\ pc[t] \in {"parse", "done"}
                  /\ calls[t] = 1
                  /\ pc[t] = "done" => result[t] = Raise("AssertionError")

\* an invocation ended on a first tool call named otherwise than func_spec
C3_Witness ==
    \E t \in Threads :
        /\ pc[t] = "done"
        /\ args[t].func_spec.present
        /\ completion[t].received
        /\ ~completion[t].tool_calls.none
        /\ Len(completion[t].tool_calls.calls) > 0
        /\ completion[t].tool_calls.calls[1].name = "other"
        /\ result[t].kind = "raise"

\* C4: without a func_spec the output is the first choice's text content as it
\* is, None included, whether or not the response carries tool calls.
C4_TextPassthrough ==
    \A t \in Threads :
        (~args[t].func_spec.present /\ completion[t].received /\ pc[t] = "done") =>
            /\ result[t].kind = "return"
            /\ result[t].output = completion[t].content

\* an invocation without func_spec returned a None content of a response that
\* carries a tool call
C4_Witness ==
    \E t \in Threads :
        /\ pc[t] = "done"
        /\ ~args[t].func_spec.present
        /\ result[t].kind = "return"
        /\ completion[t].content = PyNone
        /\ ~completion[t].tool_calls.none
        /\ Len(completion[t].tool_calls.calls) > 0

\* C5: with a func_spec, a matching first tool call and a valid JSON argument
\* string, the output is the JSON value of that string; the text content and
\* later tool calls play no part.
C5_StructuredOutput ==
    \A t \in Threads :
        (/\ args[t].func_spec.present
         /\ completion[t].received
         /\ pc[t] = "done"
         /\ ContractMet(t)
         /\ JsonLoads(FirstArguments(t)).ok) =>
            /\ result[t].kind = "return"
            /\ result[t].output = JsonLoads(FirstArguments(t)).val
            /\ FirstArguments(t) \in {"{\"x\":1}", " { \"x\" : 1 } "} =>
                  result[t].output = PyDict({Item("x", PyInt(1))})
            /\ FirstArguments(t) = "[1, null]" =>
                  result[t].output = PyList(<<PyInt(1), PyNone>>)

\* an invocation returned the parsed arguments of the first of two tool calls of
\* a response that also has text content
C5_Witness ==
    \E t \in Threads :
        /\ pc[t] = "done"
        /\ args[t].func_spec.present
        /\ completion[t].received
        /\ completion[t].content = PyStr("hello")
        /\ Len(completion[t].tool_calls.calls) = 2
        /\ result[t].kind = "return"
        /\ result[t].output = PyDict({Item("x", PyInt(1))})

\* t's response meets the contract and its first argument string is not JSON
MalformedArguments(t) ==
    /\ args[t].func_spec.present
    /\ completion[t].received
    /\ ContractMet(t)
    /\ ~JsonLoads(FirstArguments(t)).ok

\* C6: when the matching first tool call's arguments are not valid JSON, the only
\* outcome is the JSON-decoding error, raised after an error line holding the raw
\* argument string was logged, and the success line is never logged.
C6_DecodeErrorLogged ==
    [][\A t \in Threads :
          (MalformedArguments(t) /\ completion'[t] = completion[t]) =>
              /\ log'[t] # log[t] =>
                    log'[t] = Append(log[t], LogLine("error",
                                  "Error decoding function arguments: ", FirstArguments(t)))
              /\ result'[t] # result[t] =>
                    /\ result'[t] = Raise("JSONDecodeError")
                    /\ Len(log[t]) > 0
                    /\ log[t][Len(log[t])] =
                          LogLine("error", "Error decoding function arguments: ",
                                  FirstArguments(t))
                    /\ \A i \in 1..Len(log[t]) :
                          log[t][i].text # "Successfully parsed tool call response for "]_vars

\* the JSON-decoding error left query after the truncated argument string was logged
C6_Witness ==
    \E t \in Threads :
        /\ pc[t] = "done"
        /\ result[t] = Raise("JSONDecodeError")
        /\ FirstArguments(t) = "{\"x\":1"
        /\ \E i \in 1..Len(log[t]) : log[t][i].level = "error" /\ log[t][i].arg = "{\"x\":1"

\* C7 as stated: every invocation calls backoff_create exactly once.
C7_ExactlyOneBackoffCall ==
    \A t \in Threads : pc[t] = "done" => calls[t] = 1

\* C7, amended: an invocation calls backoff_create at most once; exactly once when
\* it ends in a return, a contract violation, a JSON-decoding failure or an
\* exception of the request, and not at all when it fails before the request
\* (client construction raised, no client is set, the keyword arguments clash);
\* once a response is received query does not go back to the request.
C7_AtMostOneBackoffCall ==
    \A t \in Threads :
        /\ calls[t] <= 1
        /\ pc[t] = "done" =>
              (calls[t] = 1 <=>
                  \/ result[t].kind = "return"
                  \/ result[t].exc \in {"AssertionError", "JSONDecodeError"} \cup ApiErrors)
        /\ pc[t] = "done" =>
              (calls[t] = 0 <=> result[t].exc \in {"OpenAIError", "AttributeError", "TypeError"})
        /\ completion[t].received =>
              calls[t] = 1 /\ pc[t] \in {"parse", "json_err", "reraise", "done"}

\* an invocation returned after one call of backoff_create that took two requests
C7_Witness ==
    \E t \in Threads :
        /\ pc[t] = "done"
        /\ result[t].kind = "return"
        /\ calls[t] = 1
        /\ attempts[t] = 2

\* C8: an exception of the completion call outside the four transient classes
\* leaves query as it is, at once; only the four classes are retried; a failed
\* request or a failed parse never ends in a return.
C8_NonTransientPropagates ==
    \A t \in Threads :
        /\ (lastExc[t] # "" /\ lastExc[t] \notin TransientClasses) =>
              pc[t] = "done" /\ result[t] = Raise(lastExc[t])
        /\ (pc[t] = "attempt" /\ attempts[t] > 0) => lastExc[t] \in TransientClasses
        /\ result[t].kind = "return" =>
              /\ completion[t].received
              /\ lastExc[t] = ""
              /\ args[t].func_spec.present =>
                    ContractMet(t) /\ JsonLoads(FirstArguments(t)).ok

\* an authentication error left query on the request after a retried one
C8_Witness ==
    \E t \in Threads :
        /\ pc[t] = "done"
        /\ attempts[t] = 2
        /\ lastExc[t] = "AuthenticationError"
        /\ result[t] = Raise("AuthenticationError")

\* the tools and tool_choice entries the adapter makes for t's func_spec
AdapterTools(t) == PyList(<<AsOpenaiToolDict(args[t].func_spec)>>)
AdapterToolChoice(t) == OpenaiToolChoiceDict(args[t].func_spec)
GivenKeys(t) ==
    {k \in DOMAIN args[t].model_kwargs : args[t].model_kwargs[k] # PyNone}
AddedKeys(t) == IF args[t].func_spec.present THEN {"tools", "tool_choice"} ELSE {}

\* C9 as stated: the forwarded parameters are the given ones that are not None,
\* each with its given value, plus tools and tool_choice exactly when a func_spec
\* is given.
C9_ForwardedExactly ==
    \A t \in Threads :
        request[t].sent =>
            /\ DOMAIN request[t].params = GivenKeys(t) \cup AddedKeys(t)
            /\ \A k \in GivenKeys(t) : request[t].params[k] = args[t].model_kwargs[k]
            /\ args[t].func_spec.present =>
                  /\ request[t].params["tools"] = AdapterTools(t)
                  /\ request[t].params["tool_choice"] = AdapterToolChoice(t)

\* C9, amended: as stated, except that with a func_spec a given tools or
\* tool_choice parameter is replaced by the adapter's entry.
C9_ForwardedUnlessReplaced ==
    \A t \in Threads :
        request[t].sent =>
            /\ DOMAIN request[t].params = GivenKeys(t) \cup AddedKeys(t)
            /\ \A k \in GivenKeys(t) \ AddedKeys(t) :
                  request[t].params[k] = args[t].model_kwargs[k]
            /\ args[t].func_spec.present =>
                  /\ request[t].params["tools"] = AdapterTools(t)
                  /\ request[t].params["tool_choice"] = AdapterToolChoice(t)

\* a request went out for a func_spec with the caller's tools parameter replaced
\* and the caller's temperature kept
C9_Witness ==
    \E t \in Threads :
        /\ request[t].sent
        /\ args[t].func_spec.present
        /\ args[t].model_kwargs = KwWithTools
        /\ DOMAIN request[t].params = {"temperature", "tools", "tool_choice"}
        /\ request[t].params["temperature"] = PyInt(1)
        /\ request[t].params["tools"] # args[t].model_kwargs["tools"]

\* C10: _client changes only from unset to a constructed client, once, and no
\* completion request is issued while it is unset.
C10_ClientSetOnce ==
    [][/\ client' # client => (client = NoClient /\ client' # NoClient)
       /\ \A t \in Threads :
             attempts'[t] > attempts[t] => (client # NoClient /\ create_fn[t] = client)]_vars

\* the construction failed in one invocation, and a later invocation has ended on
\* the unset reference without a request
C10_Witness ==
    \E t \in Threads :
        /\ bodyRuns = 1
        /\ client = NoClient
        /\ clientAtCall[t] = NoClient
        /\ result[t] = Raise("AttributeError")
        /\ attempts[t] = 0

====
